---- MODULE Spec2Model ----
(***************************************************************************)
(* Chat front end of hibana: the ChatInterface component (turn handling,   *)
(* transaction markers, confirmation flow) and the WalletProvider context  *)
(* (connect, disconnect, account-change subscription).                     *)
(*                                                                         *)
(* A JavaScript string is a sequence of fragments.  Text that the code     *)
(* inspects (user input, backend responses, addresses, hashes, provider    *)
(* messages) is held one character per fragment; a fixed literal of the    *)
(* code that is only ever displayed is held as one fragment.               *)
(***************************************************************************)
EXTENDS Integers, Sequences, FiniteSets, TLC

(* ------------------------------ bounds --------------------------------- *)
(* accepted submissions, and accepted submissions plus wallet events       *)
(* (clicks on the wallet controls, accountsChanged notifications)          *)
MaxTurns == 2
MaxEvents == 3

(* ------------------------------ strings -------------------------------- *)
null == <<"null">>

Truthy(v) == v # null /\ v # <<>>

Whitespace == {" ", "\t", "\n"}

LowerCase == <<"a", "b", "c", "d", "e", "f", "g", "h", "i", "j", "k", "l", "m",
               "n", "o", "p", "q", "r", "s", "t", "u", "v", "w", "x", "y", "z">>
UpperCase == <<"A", "B", "C", "D", "E", "F", "G", "H", "I", "J", "K", "L", "M",
               "N", "O", "P", "Q", "R", "S", "T", "U", "V", "W", "X", "Y", "Z">>
Digits == {"0", "1", "2", "3", "4", "5", "6", "7", "8", "9"}
HexDigits == Digits \cup {"a", "b", "c", "d", "e", "f", "A", "B", "C", "D", "E", "F"}

RECURSIVE trimStart(_)
trimStart(s) ==
  IF s # <<>> /\ Head(s) \in Whitespace THEN trimStart(Tail(s)) ELSE s

RECURSIVE trimEnd(_)
trimEnd(s) ==
  IF s # <<>> /\ s[Len(s)] \in Whitespace THEN trimEnd(SubSeq(s, 1, Len(s) - 1)) ELSE s

trim(s) == trimEnd(trimStart(s))

toUpperCaseChar(c) ==
  IF \E i \in 1..Len(LowerCase) : LowerCase[i] = c
  THEN UpperCase[CHOOSE i \in 1..Len(LowerCase) : LowerCase[i] = c]
  ELSE c

toUpperCase(s) == [i \in 1..Len(s) |-> toUpperCaseChar(s[i])]

startsAt(s, i, n) ==
  i + Len(n) - 1 <= Len(s) /\ SubSeq(s, i, i + Len(n) - 1) = n

includes(s, n) == \E i \in 1..(Len(s) + 1) : startsAt(s, i, n)

(* last index of the maximal run of characters of class cls starting at j  *)
(* (j - 1 when s[j] is not in cls)                                         *)
RECURSIVE runEnd(_, _, _)
runEnd(s, j, cls) ==
  IF j <= Len(s) /\ s[j] \in cls THEN runEnd(s, j + 1, cls) ELSE j - 1

CONFIRM == <<"C", "O", "N", "F", "I", "R", "M">>
PreviewMarker == <<"T", "r", "a", "n", "s", "a", "c", "t", "i", "o", "n", " ",
                   "P", "r", "e", "v", "i", "e", "w", ":">>
TxDataMarker == <<"t", "x", "_", "d", "a", "t", "a", ":">>
HexPrefix == <<"0", "x">>
GasLimit == <<"0", "x", "5", "2", "0", "8">>

NoMatch == [matched |-> FALSE]

(* /tx_data:(0x[a-fA-F0-9]+):(0x[a-fA-F0-9]+):(\d+)/ anchored at index i.  *)
(* No character class contains the separator that follows it, so the       *)
(* greedy runs are the only way to match.                                  *)
txDataMatchAt(s, i) ==
  LET a0 == i + Len(TxDataMarker)
      a1 == a0 + Len(HexPrefix)
      aE == runEnd(s, a1, HexDigits)
      b0 == aE + 2
      b1 == b0 + Len(HexPrefix)
      bE == runEnd(s, b1, HexDigits)
      d1 == bE + 2
      dE == runEnd(s, d1, Digits)
  IN IF /\ startsAt(s, i, TxDataMarker)
        /\ startsAt(s, a0, HexPrefix)
        /\ aE >= a1
        /\ startsAt(s, aE + 1, <<":">>)
        /\ startsAt(s, b0, HexPrefix)
        /\ bE >= b1
        /\ startsAt(s, bE + 1, <<":">>)
        /\ dE >= d1
     THEN [matched |-> TRUE, toAddress |-> SubSeq(s, a0, aE), valueHex |-> SubSeq(s, b0, bE)]
     ELSE NoMatch

(* String.prototype.match without the g flag: the leftmost match, or none  *)
txDataMatch(s) ==
  LET hits == {i \in 1..Len(s) : txDataMatchAt(s, i).matched}
  IN IF hits = {} THEN NoMatch
     ELSE txDataMatchAt(s, CHOOSE i \in hits : \A j \in hits : i <= j)

(* ------------------------- fixed texts of the code --------------------- *)
Greeting == <<"Hi, I'm Artemis! I'm your Copilot for Flare, ready to help you with operations like connecting your wallet, sending tokens, and executing token swaps.">>
ApologyText == <<"Sorry, there was an error processing your request. Please try again.">>
CancelledText == <<"Transaction cancelled. How else can I help you?">>
ConnectFailedText == <<"Failed to connect wallet. Please connect your wallet and try again.">>
NotInstalledText == <<"MetaMask is not installed. Please install MetaMask to connect your wallet.">>
NoAccountsText == <<"No accounts found. Please create an account in MetaMask.">>
ConnectFallbackText == <<"Failed to connect to wallet">>
UndefinedText == <<"u", "n", "d", "e", "f", "i", "n", "e", "d">>

ConnectedText(a) == <<"Your wallet has been connected successfully! Your address is: ">> \o a
TxSentText(h) == <<"Transaction sent successfully! Transaction hash: ">> \o h
TxErrorText(e) ==
  <<"Error sending transaction: ">> \o
    (IF "message" \in DOMAIN e THEN e.message ELSE UndefinedText)

userMessage(t) == [text |-> t, type |-> "user"]
botMessage(t) == [text |-> t, type |-> "bot"]

(* --------------------------- the environment --------------------------- *)
In_hi == <<"h", "i">>
In_CONFIRM == <<"C", "O", "N", "F", "I", "R", "M">>
In_confirm == <<"c", "o", "n", "f", "i", "r", "m">>
In_Confirm == <<" ", "C", "o", "n", "f", "i", "r", "m", " ">>
In_confirmx == <<"c", "o", "n", "f", "i", "r", "m", "x">>
In_blank == <<" ", " ">>
Inputs == {In_hi, In_Confirm, In_confirmx, In_blank}

Resp_plain == <<"o", "k">>
Resp_preview == PreviewMarker \o <<" ", "5">>
Resp_tx == TxDataMarker \o <<"0", "x", "A", "b", ":", "0", "x", "5", ":", "5">>
Resp_both == PreviewMarker \o <<" ">> \o Resp_tx
Resp_malformed == TxDataMarker \o <<"A", "b", ":", "0", "x", "5", ":", "5">>
Responses == {Resp_plain, Resp_preview, Resp_tx, Resp_both, Resp_malformed}

Addr1 == <<"0", "x", "a", "1">>
Addr2 == <<"0", "x", "b", "2">>
AccountLists == {<<>>, <<Addr1>>, <<Addr2, Addr1>>}

TxHashes == {<<"0", "x", "H">>}
DeniedText == <<"d", "e", "n", "i", "e", "d">>
ProviderErrors == {[code |-> 4001, message |-> DeniedText], [code |-> 4001]}

(* ------------------------------- state --------------------------------- *)
VARIABLES
  messages, inputText, isLoading, awaitingConfirmation, pendingTransaction,
  account, isConnecting, error, isMetaMaskAvailable,
  mounted,
  pc, closure, text, dataResponse, accounts,
  connectRequest, accountsQuery,
  backendRequests, txRequests,
  turns, walletLog

chatVars == <<messages, inputText, isLoading, awaitingConfirmation, pendingTransaction>>
walletVars == <<account, isConnecting, error, isMetaMaskAvailable>>
turnVars == <<pc, closure, text, dataResponse, accounts>>
logVars == <<backendRequests, txRequests>>
vars == <<chatVars, walletVars, mounted, turnVars, connectRequest, accountsQuery,
          logVars, turns, walletLog>>

(* wallet events so far: clicks on the wallet controls and notifications *)
walletEvents == Len(walletLog)

NoClosure ==
  [account |-> null, awaitingConfirmation |-> FALSE,
   pendingTransaction |-> null, messageText |-> null]

Init ==
  /\ messages = <<botMessage(Greeting)>>
  /\ inputText = <<>>
  /\ isLoading = FALSE
  /\ awaitingConfirmation = FALSE
  /\ pendingTransaction = null
  /\ account = null
  /\ isConnecting = FALSE
  /\ error = null
  /\ isMetaMaskAvailable \in BOOLEAN
  /\ mounted = TRUE
  /\ pc = "idle"
  /\ closure = NoClosure
  /\ text = null
  /\ dataResponse = null
  /\ accounts = <<>>
  /\ connectRequest = FALSE
  /\ accountsQuery = isMetaMaskAvailable
  /\ backendRequests = <<>>
  /\ txRequests = <<>>
  /\ turns = 0
  /\ walletLog = <<>>

(* a state setter of a component: ignored once the component is unmounted  *)
setState(cur, new) == IF mounted THEN new ELSE cur

(* ------------------------- WalletProvider ------------------------------ *)
(* variant: the effect announces every change of account, null included *)
setAccount_announcesNull(a) ==
  /\ account' = setState(account, a)
  /\ messages' = IF mounted /\ a # account
                 THEN Append(messages, botMessage(ConnectedText(a)))
                 ELSE messages

(* setAccount together with ChatInterface's effect on [account]: a render  *)
(* with a different, truthy account appends the announcement               *)
setAccount(a) ==
  /\ account' = setState(account, a)
  /\ messages' = IF mounted /\ a # account /\ Truthy(a)
                 THEN Append(messages, botMessage(ConnectedText(a)))
                 ELSE messages

(* variant: an empty list does not clear the account *)
handleAccountsChanged_keepsOnEmpty(accts) ==
  IF Len(accts) > 0 THEN setAccount(accts[1]) ELSE UNCHANGED <<account, messages>>

handleAccountsChanged(accts) ==
  IF Len(accts) > 0 THEN setAccount(accts[1]) ELSE setAccount(null)

(* the Connect button of WalletConnector, then connectWallet up to its await *)
connectWallet ==
  /\ mounted /\ ~Truthy(account) /\ isMetaMaskAvailable /\ ~isConnecting
  /\ turns + walletEvents < MaxEvents
  /\ walletLog' = Append(walletLog, "connectWallet")
  /\ IF ~isMetaMaskAvailable
     THEN /\ error' = NotInstalledText
          /\ UNCHANGED <<isConnecting, connectRequest>>
     ELSE /\ isConnecting' = TRUE
          /\ error' = null
          /\ connectRequest' = TRUE
  /\ UNCHANGED <<chatVars, account, isMetaMaskAvailable, mounted, turnVars,
                 accountsQuery, logVars, turns>>

(* eth_requestAccounts of connectWallet resolves with an account list *)
connectWalletResolved(accts) ==
  /\ connectRequest
  /\ connectRequest' = FALSE
  /\ IF Len(accts) > 0
     THEN setAccount(accts[1]) /\ UNCHANGED error
     ELSE error' = setState(error, NoAccountsText) /\ UNCHANGED <<account, messages>>
  /\ isConnecting' = setState(isConnecting, FALSE)
  /\ UNCHANGED <<inputText, isLoading, awaitingConfirmation, pendingTransaction,
                 isMetaMaskAvailable, mounted, turnVars, accountsQuery, logVars,
                 turns, walletLog>>

(* variant: the rejection path without the finally block *)
connectWalletRejected_noFinally(e) ==
  /\ connectRequest
  /\ connectRequest' = FALSE
  /\ error' = setState(error, IF "message" \in DOMAIN e /\ Truthy(e.message)
                              THEN e.message ELSE ConnectFallbackText)
  /\ UNCHANGED <<chatVars, account, isConnecting, isMetaMaskAvailable, mounted,
                 turnVars, accountsQuery, logVars, turns, walletLog>>

(* eth_requestAccounts of connectWallet rejects *)
connectWalletRejected(e) ==
  /\ connectRequest
  /\ connectRequest' = FALSE
  /\ error' = setState(error, IF "message" \in DOMAIN e /\ Truthy(e.message)
                              THEN e.message ELSE ConnectFallbackText)
  /\ isConnecting' = setState(isConnecting, FALSE)
  /\ UNCHANGED <<chatVars, account, isMetaMaskAvailable, mounted, turnVars,
                 accountsQuery, logVars, turns, walletLog>>

(* variant: disconnect also clears the error *)
disconnectWallet_clearsError ==
  /\ mounted
  /\ turns + walletEvents < MaxEvents
  /\ walletLog' = Append(walletLog, "disconnectWallet")
  /\ setAccount(null)
  /\ error' = null
  /\ UNCHANGED <<inputText, isLoading, awaitingConfirmation, pendingTransaction,
                 isConnecting, isMetaMaskAvailable, mounted, turnVars,
                 connectRequest, accountsQuery, logVars, turns>>

disconnectWallet ==
  /\ mounted
  /\ turns + walletEvents < MaxEvents
  /\ walletLog' = Append(walletLog, "disconnectWallet")
  /\ setAccount(null)
  /\ UNCHANGED <<inputText, isLoading, awaitingConfirmation, pendingTransaction,
                 isConnecting, error, isMetaMaskAvailable, mounted, turnVars,
                 connectRequest, accountsQuery, logVars, turns>>

(* the provider emits accountsChanged; the listener is registered from     *)
(* mount to teardown                                                       *)
accountsChanged(accts) ==
  /\ isMetaMaskAvailable
  /\ turns + walletEvents < MaxEvents
  /\ walletLog' = Append(walletLog, "accountsChanged")
  /\ IF mounted THEN handleAccountsChanged(accts) ELSE UNCHANGED <<account, messages>>
  /\ UNCHANGED <<inputText, isLoading, awaitingConfirmation, pendingTransaction,
                 isConnecting, error, isMetaMaskAvailable, mounted, turnVars,
                 connectRequest, accountsQuery, logVars, turns>>

(* the mount-time eth_accounts query resolves *)
accountsQueryResolved(accts) ==
  /\ accountsQuery
  /\ accountsQuery' = FALSE
  /\ handleAccountsChanged(accts)
  /\ UNCHANGED <<inputText, isLoading, awaitingConfirmation, pendingTransaction,
                 isConnecting, error, isMetaMaskAvailable, mounted, turnVars,
                 connectRequest, logVars, turns, walletLog>>

(* the mount-time eth_accounts query rejects: .catch(console.error) *)
accountsQueryRejected ==
  /\ accountsQuery
  /\ accountsQuery' = FALSE
  /\ UNCHANGED <<chatVars, walletVars, mounted, turnVars, connectRequest,
                 logVars, turns, walletLog>>

(* teardown of the application: the effect's cleanup removes the listener *)
unmount ==
  /\ mounted
  /\ mounted' = FALSE
  /\ UNCHANGED <<chatVars, walletVars, turnVars, connectRequest, accountsQuery,
                 logVars, turns, walletLog>>

(* --------------------------- ChatInterface ----------------------------- *)
requestBody(t, acc) ==
  IF Truthy(acc) THEN [message |-> t, wallet_address |-> acc] ELSE [message |-> t]

(* handleSendMessage up to its first await: the POST is issued; earlier is *)
(* the list of backend requests of the turn so far                         *)
handleSendMessage(t, acc, earlier) ==
  /\ text' = t
  /\ backendRequests' = Append(earlier, requestBody(t, acc))
  /\ pc' = "fetch"

(* variant: the turn ends without setIsLoading(false) *)
turnCompleted_keepsLoading(response) ==
  /\ messages' = setState(messages, Append(messages, botMessage(response)))
  /\ isLoading' = isLoading
  /\ pc' = "idle"

(* the value handleSendMessage returned is appended; the turn is over *)
turnCompleted(response) ==
  /\ messages' = setState(messages, Append(messages, botMessage(response)))
  /\ isLoading' = setState(isLoading, FALSE)
  /\ pc' = "idle"

(* variant: CONFIRM matched as a substring *)
isConfirm_substring(messageText) == includes(toUpperCase(messageText), CONFIRM)

isConfirm(messageText) == toUpperCase(messageText) = CONFIRM

(* variant: the early return without the empty-text test *)
submitRejected_onlyWhileLoading(t) == isLoading

(* the early return of handleSubmit *)
submitRejected(t) == ~Truthy(trim(t)) \/ isLoading

(* the form's onSubmit with t in the input: handleSubmit up to its first    *)
(* await.  The input is disabled while isLoading, so its text cannot be    *)
(* edited then.                                                            *)
handleSubmit(t) ==
  /\ mounted
  /\ isLoading => t = inputText
  /\ LET messageText == trim(t) IN
     IF submitRejected(t)
     THEN /\ inputText' = t
          /\ UNCHANGED <<messages, isLoading, awaitingConfirmation, pendingTransaction,
                         turnVars, logVars, turns>>
     ELSE /\ turns < MaxTurns /\ turns + walletEvents < MaxEvents
          /\ turns' = turns + 1
          /\ inputText' = <<>>
          /\ closure' = [account |-> account,
                         awaitingConfirmation |-> awaitingConfirmation,
                         pendingTransaction |-> pendingTransaction,
                         messageText |-> messageText]
          /\ dataResponse' = null
          /\ accounts' = <<>>
          /\ txRequests' = <<>>
          /\ IF awaitingConfirmation
             THEN IF isConfirm(messageText)
                  THEN /\ awaitingConfirmation' = FALSE
                       /\ UNCHANGED pendingTransaction
                       /\ messages' = Append(messages, userMessage(messageText))
                       /\ isLoading' = TRUE
                       /\ IF ~Truthy(account) /\ isMetaMaskAvailable
                          THEN /\ pc' = "requestAccounts"
                               /\ text' = null
                               /\ backendRequests' = <<>>
                          ELSE handleSendMessage(pendingTransaction, account, <<>>)
                  ELSE /\ awaitingConfirmation' = FALSE
                       /\ pendingTransaction' = null
                       /\ messages' = messages \o <<userMessage(messageText),
                                                    botMessage(CancelledText)>>
                       /\ isLoading' = FALSE
                       /\ pc' = "idle"
                       /\ text' = null
                       /\ backendRequests' = <<>>
             ELSE /\ UNCHANGED <<awaitingConfirmation, pendingTransaction>>
                  /\ messages' = Append(messages, userMessage(messageText))
                  /\ isLoading' = TRUE
                  /\ handleSendMessage(messageText, account, <<>>)
  /\ UNCHANGED <<walletVars, mounted, connectRequest, accountsQuery, walletLog>>

(* variant: a failed backend call is treated as a preview of the text sent *)
backendFailed_setsPending ==
  /\ pc = "fetch"
  /\ turnCompleted(ApologyText)
  /\ awaitingConfirmation' = TRUE
  /\ pendingTransaction' = text
  /\ UNCHANGED <<inputText, walletVars,
                 mounted, closure, text, dataResponse, accounts, connectRequest,
                 accountsQuery, logVars, turns, walletLog>>

(* fetch throws, or the status is not 2xx: the outer catch *)
backendFailed ==
  /\ pc = "fetch"
  /\ turnCompleted(ApologyText)
  /\ UNCHANGED <<inputText, awaitingConfirmation, pendingTransaction, walletVars,
                 mounted, closure, text, dataResponse, accounts, connectRequest,
                 accountsQuery, logVars, turns, walletLog>>

(* variant: the tx_data guard without the account test *)
shouldSendTransaction_noAccountCheck(r) ==
  /\ includes(r, TxDataMarker)
  /\ txDataMatch(r).matched /\ isMetaMaskAvailable

(* the response is relayed to the wallet extension *)
shouldSendTransaction(r) ==
  /\ includes(r, TxDataMarker)
  /\ txDataMatch(r).matched /\ isMetaMaskAvailable /\ Truthy(closure.account)

(* variant: the wrong capture group as destination *)
transactionParameters_valueAsTo(from, m) ==
  [from |-> from, to |-> m.valueHex, value |-> m.valueHex, gas |-> GasLimit]

transactionParameters(from, m) ==
  [from |-> from, to |-> m.toAddress, value |-> m.valueHex, gas |-> GasLimit]

(* variant: the pending text is the text typed in this turn *)
backendResponded_pendingFromInput(r) ==
  /\ pc = "fetch"
  /\ dataResponse' = r
  /\ IF includes(r, PreviewMarker)
     THEN /\ awaitingConfirmation' = setState(awaitingConfirmation, TRUE)
          /\ pendingTransaction' = setState(pendingTransaction, closure.messageText)
     ELSE UNCHANGED <<awaitingConfirmation, pendingTransaction>>
  /\ IF shouldSendTransaction(r)
     THEN /\ txRequests' = Append(txRequests,
                              transactionParameters(closure.account, txDataMatch(r)))
          /\ pc' = "sendTransaction"
          /\ UNCHANGED <<messages, isLoading>>
     ELSE /\ turnCompleted(r)
          /\ UNCHANGED txRequests
  /\ UNCHANGED <<inputText, walletVars, mounted, closure, text, accounts,
                 connectRequest, accountsQuery, backendRequests, turns, walletLog>>

(* the backend answers { response: r } *)
backendResponded(r) ==
  /\ pc = "fetch"
  /\ dataResponse' = r
  /\ IF includes(r, PreviewMarker)
     THEN /\ awaitingConfirmation' = setState(awaitingConfirmation, TRUE)
          /\ pendingTransaction' = setState(pendingTransaction, text)
     ELSE UNCHANGED <<awaitingConfirmation, pendingTransaction>>
  /\ IF shouldSendTransaction(r)
     THEN /\ txRequests' = Append(txRequests,
                              transactionParameters(closure.account, txDataMatch(r)))
          /\ pc' = "sendTransaction"
          /\ UNCHANGED <<messages, isLoading>>
     ELSE /\ turnCompleted(r)
          /\ UNCHANGED txRequests
  /\ UNCHANGED <<inputText, walletVars, mounted, closure, text, accounts,
                 connectRequest, accountsQuery, backendRequests, turns, walletLog>>

(* variant: the success text replaces the last displayed message *)
sendTransactionResolved_replacesLast(txHash) ==
  /\ pc = "sendTransaction"
  /\ messages' = Append(SubSeq(messages, 1, Len(messages) - 1),
                        botMessage(TxSentText(txHash)))
  /\ isLoading' = FALSE
  /\ pc' = "idle"
  /\ UNCHANGED <<inputText, awaitingConfirmation, pendingTransaction, walletVars,
                 mounted, closure, text, dataResponse, accounts, connectRequest,
                 accountsQuery, logVars, turns, walletLog>>

(* eth_sendTransaction resolves with a transaction hash *)
sendTransactionResolved(txHash) ==
  /\ pc = "sendTransaction"
  /\ turnCompleted(TxSentText(txHash))
  /\ UNCHANGED <<inputText, awaitingConfirmation, pendingTransaction, walletVars,
                 mounted, closure, text, dataResponse, accounts, connectRequest,
                 accountsQuery, logVars, turns, walletLog>>

(* eth_sendTransaction rejects: the inner catch *)
sendTransactionRejected(walletError) ==
  /\ pc = "sendTransaction"
  /\ turnCompleted(TxErrorText(walletError))
  /\ UNCHANGED <<inputText, awaitingConfirmation, pendingTransaction, walletVars,
                 mounted, closure, text, dataResponse, accounts, connectRequest,
                 accountsQuery, logVars, turns, walletLog>>

(* variant: no return after the timer is set, so line 178 runs at once *)
requestAccountsResolved_noReturn(accts) ==
  /\ pc = "requestAccounts"
  /\ accounts' = accts
  /\ IF Len(accts) > 0
     THEN /\ pc' = "timer"
          /\ isLoading' = FALSE
          /\ UNCHANGED <<text, backendRequests>>
     ELSE /\ handleSendMessage(closure.pendingTransaction, closure.account, backendRequests)
          /\ UNCHANGED isLoading
  /\ UNCHANGED <<messages, inputText, awaitingConfirmation, pendingTransaction,
                 walletVars, mounted, closure, dataResponse, connectRequest,
                 accountsQuery, txRequests, turns, walletLog>>

(* eth_requestAccounts of the CONFIRM path resolves *)
requestAccountsResolved(accts) ==
  /\ pc = "requestAccounts"
  /\ accounts' = accts
  /\ IF Len(accts) > 0
     THEN /\ pc' = "timer"
          /\ UNCHANGED <<text, backendRequests>>
     ELSE handleSendMessage(closure.pendingTransaction, closure.account, backendRequests)
  /\ UNCHANGED <<chatVars, walletVars, mounted, closure, dataResponse, connectRequest,
                 accountsQuery, txRequests, turns, walletLog>>

(* eth_requestAccounts of the CONFIRM path rejects *)
requestAccountsRejected ==
  /\ pc = "requestAccounts"
  /\ turnCompleted(ConnectFailedText)
  /\ UNCHANGED <<inputText, awaitingConfirmation, pendingTransaction, walletVars,
                 mounted, closure, text, dataResponse, accounts, connectRequest,
                 accountsQuery, logVars, turns, walletLog>>

(* the 1000 ms timer of the CONFIRM path fires *)
timerFired ==
  /\ pc = "timer"
  /\ handleSendMessage(closure.pendingTransaction, closure.account, backendRequests)
  /\ UNCHANGED <<chatVars, walletVars, mounted, closure, dataResponse, accounts,
                 connectRequest, accountsQuery, txRequests, turns, walletLog>>

(* --------------------------- specification ----------------------------- *)
(* the events of the ChatInterface component *)
chatStep ==
  \/ \E t \in Inputs : handleSubmit(t)
  \/ backendFailed
  \/ \E r \in Responses : backendResponded(r)
  \/ \E h \in TxHashes : sendTransactionResolved(h)
  \/ \E e \in ProviderErrors : sendTransactionRejected(e)
  \/ \E a \in AccountLists : requestAccountsResolved(a)
  \/ requestAccountsRejected
  \/ timerFired

(* the events of the WalletProvider component *)
walletStep ==
  \/ connectWallet
  \/ \E a \in AccountLists : connectWalletResolved(a)
  \/ \E e \in ProviderErrors : connectWalletRejected(e)
  \/ disconnectWallet
  \/ \E a \in AccountLists : accountsChanged(a)
  \/ \E a \in AccountLists : accountsQueryResolved(a)
  \/ accountsQueryRejected

(* The application while it is mounted.  App is the root and is never      *)
(* unmounted while the page lives, so the effect cleanup of WalletProvider *)
(* does not run here.                                                      *)
Next == chatStep \/ walletStep

Spec == Init /\ [][Next]_vars

(* Every call the application awaits completes, with success or failure,   *)
(* and the timer fires: the backend answers or the fetch fails, the wallet *)
(* extension resolves or rejects each request.                             *)
callsComplete ==
  /\ WF_vars(backendFailed \/ \E r \in Responses : backendResponded(r))
  /\ WF_vars((\E h \in TxHashes : sendTransactionResolved(h))
              \/ (\E e \in ProviderErrors : sendTransactionRejected(e)))
  /\ WF_vars((\E a \in AccountLists : requestAccountsResolved(a))
              \/ requestAccountsRejected)
  /\ WF_vars(timerFired)

SpecLive == Init /\ [][Next]_vars /\ callsComplete

(* WalletProvider on its own, teardown included: it reads no state of its  *)
(* consumers, and its account is announced in the message list.            *)
NextWallet == walletStep \/ unmount

SpecWallet == Init /\ [][NextWallet]_vars

TypeOK ==
  /\ pc \in {"idle", "fetch", "sendTransaction", "requestAccounts", "timer"}
  /\ isLoading \in BOOLEAN /\ awaitingConfirmation \in BOOLEAN
  /\ turns \in 0..MaxTurns /\ walletEvents \in 0..MaxEvents

(* ------------------------------ claims --------------------------------- *)
lastMessage(ms) == ms[Len(ms)]
confirmTurn == closure.awaitingConfirmation /\ toUpperCase(closure.messageText) = CONFIRM

(* C1: an eth_sendTransaction request is issued only in a turn that the    *)
(* user started by submitting CONFIRM while a preview was pending; a turn  *)
(* started with awaitingConfirmation false never issues one.               *)
C1_SendOnlyAfterConfirm == txRequests # <<>> => confirmTurn

C2_ConfirmSpellings == {In_confirm, In_CONFIRM, In_Confirm}

C2_Confirmed(t) ==
  /\ ~awaitingConfirmation'
  /\ pendingTransaction' = pendingTransaction
  /\ messages' = Append(messages, userMessage(trim(t)))
  /\ \/ /\ pc' = "fetch"
        /\ Len(backendRequests') = 1
        /\ backendRequests'[1].message = pendingTransaction
     \/ /\ pc' = "requestAccounts"
        /\ ~Truthy(account) /\ isMetaMaskAvailable

C2_Cancelled(t) ==
  /\ ~awaitingConfirmation'
  /\ pendingTransaction' = null
  /\ messages' = messages \o <<userMessage(trim(t)), botMessage(CancelledText)>>
  /\ backendRequests' = <<>> /\ txRequests' = <<>>
  /\ pc' = "idle"
  /\ UNCHANGED <<connectRequest, accountsQuery>>

(* C2: while awaitingConfirmation is true, an accepted submission whose    *)
(* trimmed, upper-cased text is CONFIRM clears awaitingConfirmation, adds  *)
(* no cancellation message and goes on to resubmit the pending text; any   *)
(* other non-empty text clears awaitingConfirmation and pendingTransaction,*)
(* appends exactly the cancellation message and makes no backend or        *)
(* provider call.                                                          *)
C2_ConfirmationMatching ==
  /\ \A t \in C2_ConfirmSpellings : toUpperCase(trim(t)) = CONFIRM
  /\ toUpperCase(trim(In_confirmx)) # CONFIRM
  /\ [][\A t \in Inputs :
          (awaitingConfirmation /\ ~isLoading /\ trim(t) # <<>> /\ handleSubmit(t))
          => IF t \in C2_ConfirmSpellings THEN C2_Confirmed(t) ELSE C2_Cancelled(t)]_vars

C2_Witness ==
  /\ pc = "fetch" /\ confirmTurn
  /\ closure.messageText = trim(In_Confirm)
  /\ ~awaitingConfirmation
  /\ text = closure.pendingTransaction /\ text = In_hi

(* C3 as stated: while awaitingConfirmation is true, submitting            *)
(* whitespace-only text cancels the pending transaction.                   *)
C3_BlankCancels ==
  [][(awaitingConfirmation /\ handleSubmit(In_blank))
     => /\ ~awaitingConfirmation'
        /\ pendingTransaction' = null
        /\ lastMessage(messages') = botMessage(CancelledText)]_vars

(* C3 amended: while awaitingConfirmation is true, submitting              *)
(* whitespace-only text is ignored: awaitingConfirmation stays true, the   *)
(* pending transaction is kept, no message is appended, no call is made.   *)
C3_BlankIgnored ==
  [][(awaitingConfirmation /\ handleSubmit(In_blank))
     => /\ inputText' = In_blank
        /\ UNCHANGED <<messages, isLoading, awaitingConfirmation, pendingTransaction,
                       turnVars, logVars, turns>>]_vars

C3_Witness ==
  /\ mounted /\ ~isLoading
  /\ awaitingConfirmation /\ pendingTransaction = In_hi
  /\ inputText = In_blank

(* C4: a response with both the preview marker and a well-formed tx_data   *)
(* marker, in a turn with no wallet account connected, ends the turn with  *)
(* awaitingConfirmation true, pendingTransaction the text sent to the      *)
(* backend, the raw response appended as the bot message and no            *)
(* eth_sendTransaction request.                                            *)
C4_PreviewWithoutWallet ==
  [][(mounted /\ ~Truthy(closure.account) /\ backendResponded(Resp_both))
     => /\ awaitingConfirmation'
        /\ pendingTransaction' = lastMessage(backendRequests).message
        /\ messages' = Append(messages, botMessage(Resp_both))
        /\ txRequests' = <<>>
        /\ pc' = "idle" /\ ~isLoading']_vars

C4_Witness ==
  /\ mounted /\ pc = "idle"
  /\ dataResponse = Resp_both /\ ~Truthy(closure.account) /\ isMetaMaskAvailable
  /\ awaitingConfirmation /\ pendingTransaction = In_hi
  /\ lastMessage(messages) = botMessage(Resp_both)
  /\ txRequests = <<>>

C5_Expected(from) ==
  [from |-> from, to |-> <<"0", "x", "A", "b">>, value |-> <<"0", "x", "5">>,
   gas |-> <<"0", "x", "5", "2", "0", "8">>]

(* C5: a response with a well-formed tx_data marker, with a wallet account *)
(* connected, makes handleSendMessage issue exactly one eth_sendTransaction*)
(* request with from the connected account, to and value from the marker   *)
(* and gas 0x5208; the bot message then carries the transaction id in      *)
(* place of the raw response, or is the error message with the provider's  *)
(* error message.                                                          *)
C5_RelayToWallet ==
  [][/\ \A r \in {Resp_tx, Resp_both} :
          (Truthy(account) /\ closure.account = account /\ backendResponded(r))
          => /\ txRequests' = <<C5_Expected(account)>>
             /\ pc' = "sendTransaction"
             /\ messages' = messages
     /\ \A h \in TxHashes :
          (mounted /\ sendTransactionResolved(h))
          => /\ Len(txRequests') = 1
             /\ messages' = Append(messages, lastMessage(messages'))
             /\ lastMessage(messages').type = "bot"
             /\ includes(lastMessage(messages').text, h)
             /\ lastMessage(messages').text # dataResponse
     /\ \A e \in ProviderErrors :
          (mounted /\ sendTransactionRejected(e))
          => /\ Len(txRequests') = 1
             /\ messages' = Append(messages, lastMessage(messages'))
             /\ lastMessage(messages').type = "bot"
             /\ Head(lastMessage(messages').text) = "Error sending transaction: "
             /\ "message" \in DOMAIN e => includes(lastMessage(messages').text, e.message)
    ]_vars

C5_Witness ==
  /\ mounted /\ pc = "idle"
  /\ dataResponse = Resp_tx /\ closure.account = Addr2 /\ account = Addr2
  /\ txRequests = <<C5_Expected(Addr2)>>
  /\ lastMessage(messages) = botMessage(TxSentText(<<"0", "x", "H">>))

(* C6: after CONFIRM with no account connected and a provider present, a   *)
(* non-empty answer to the account request makes the pending text be       *)
(* resubmitted exactly once as a connected wallet: the request body        *)
(* carries the new address as wallet_address and a well-formed tx_data     *)
(* marker in the response is relayed with eth_sendTransaction from it.     *)
C6_ResubmitAsConnected ==
  (/\ confirmTurn /\ ~Truthy(closure.account) /\ isMetaMaskAvailable
   /\ Len(accounts) > 0 /\ pc \in {"fetch", "sendTransaction", "idle"})
  => /\ Len(backendRequests) = 1
     /\ backendRequests[1].message = closure.pendingTransaction
     /\ "wallet_address" \in DOMAIN backendRequests[1]
     /\ backendRequests[1].wallet_address = accounts[1]
     /\ (pc # "fetch" /\ dataResponse \in {Resp_tx, Resp_both})
        => txRequests = <<C5_Expected(accounts[1])>>

(* C7: after CONFIRM with no account connected and a provider present, a   *)
(* connect attempt that yields no account (rejection or an empty list)     *)
(* appends the fixed failure message, makes no backend call in the turn    *)
(* and returns isLoading to false.                                         *)
C7_ConnectFailureStopsTurn ==
  (/\ confirmTurn /\ ~Truthy(closure.account) /\ isMetaMaskAvailable
   /\ accounts = <<>> /\ pc # "requestAccounts")
  => /\ backendRequests = <<>>
     /\ mounted => /\ pc = "idle" /\ ~isLoading
                   /\ \E i \in 1..Len(messages) :
                        messages[i] = botMessage(ConnectFailedText)

(* C8: with a provider present, connecting is true exactly while the       *)
(* connectWallet account request is in flight; a non-empty list sets       *)
(* address to its first account with error null; an empty list leaves      *)
(* address and sets the 'No accounts found' error; a rejection leaves      *)
(* address and sets the provider's message or the fallback.                *)
C8_ConnectOutcomes ==
  [][/\ mounted' => (isConnecting' <=> connectRequest')
     /\ connectWallet => (isConnecting' /\ connectRequest' /\ account' = account)
     /\ \A a \in AccountLists :
          (mounted /\ connectWalletResolved(a))
          => /\ ~isConnecting' /\ ~connectRequest'
             /\ IF a # <<>>
                THEN account' = a[1] /\ error' = null
                ELSE account' = account
                     /\ error' = <<"No accounts found. Please create an account in MetaMask.">>
     /\ \A e \in ProviderErrors :
          (mounted /\ connectWalletRejected(e))
          => /\ ~isConnecting' /\ ~connectRequest'
             /\ account' = account
             /\ error' = IF "message" \in DOMAIN e THEN e.message
                         ELSE <<"Failed to connect to wallet">>
    ]_vars

C8_Witness ==
  /\ mounted /\ walletLog = <<"connectWallet">>
  /\ ~isConnecting /\ ~connectRequest
  /\ error = NoAccountsText /\ account = Addr1

(* C9: disconnectWallet sets address to null, leaves providerAvailable,    *)
(* connecting and error as they are and makes no provider call; called     *)
(* again right after, it leaves the wallet state as the first call left it.*)
C9_Disconnect ==
  [][disconnectWallet
     => /\ account' = null
        /\ UNCHANGED <<isMetaMaskAvailable, isConnecting, error>>
        /\ UNCHANGED <<connectRequest, accountsQuery, pc, backendRequests, txRequests>>
        /\ account = null => UNCHANGED <<walletVars, messages>>]_vars

C9_Witness ==
  /\ mounted /\ account = null /\ error = DeniedText
  /\ walletLog = <<"connectWallet", "disconnectWallet", "disconnectWallet">>
  /\ messages = <<botMessage(Greeting), botMessage(ConnectedText(Addr1))>>

(* C10: while mounted with a provider present, an accountsChanged          *)
(* notification sets address to the first account of the list, or to null  *)
(* for an empty list, whatever the state before and without touching       *)
(* connecting or error; after teardown a notification changes nothing.     *)
C10_AccountsChanged ==
  [][\A a \in AccountLists :
       accountsChanged(a)
       => IF mounted
          THEN /\ account' = (IF a = <<>> THEN null ELSE a[1])
               /\ UNCHANGED <<isConnecting, error>>
          ELSE UNCHANGED <<chatVars, walletVars>>]_vars

C10_Witness ==
  /\ mounted /\ account = Addr2 /\ ~connectRequest
  /\ walletLog = <<"connectWallet", "disconnectWallet", "accountsChanged">>
  /\ messages = <<botMessage(Greeting), botMessage(ConnectedText(Addr1)),
                  botMessage(ConnectedText(Addr2))>>

(* C11: once account is non-null, every step that changes it is an         *)
(* explicit disconnectWallet or the handling of an accountsChanged         *)
(* notification; neither the resolution of connectWallet's request nor the *)
(* late resolution of the mount-time eth_accounts query changes or clears  *)
(* a set account.                                                          *)
C11_AddressChangesOnlyByDisconnectOrNotification ==
  [][(Truthy(account) /\ account' # account)
     => \/ disconnectWallet
        \/ \E a \in AccountLists : accountsChanged(a)]_vars

(* C12: at no point are two eth_requestAccounts requests in flight at the  *)
(* same time, one from connectWallet (the Connect control) and one from    *)
(* the CONFIRM path of handleSubmit.                                       *)
C12_OneConnectAttemptInFlight == ~(connectRequest /\ pc = "requestAccounts")

(* C13: the pending transaction is cleared on confirm as well as on        *)
(* cancel: in every state where no turn is in progress, pendingTransaction *)
(* is non-null only if awaitingConfirmation is true.                       *)
C13_PendingClearedOnConfirmOrCancel ==
  (pc = "idle" /\ ~isLoading /\ pendingTransaction # null) => awaitingConfirmation

(* C14: every accepted submission returns the controller to a stable       *)
(* state.  The step that ends a turn appends exactly one bot message and   *)
(* sets isLoading to false, no other step of the turn appends a message,   *)
(* and, every awaited call and the timer completing, each turn in progress *)
(* is eventually over with isLoading false.                                *)
C14_TurnEnds ==
  /\ [][/\ (pc = "idle" /\ pc' # "idle")
           => /\ isLoading'
              /\ messages' = Append(messages, userMessage(closure'.messageText))
        /\ (turns' # turns /\ pc' = "idle")
           => /\ ~isLoading'
              /\ messages' = messages \o <<userMessage(closure'.messageText),
                                           botMessage(lastMessage(messages').text)>>
        /\ (pc # "idle" /\ pc' # "idle" /\ pc' # pc)
           => /\ isLoading'
              /\ messages' = messages
        /\ (pc # "idle" /\ pc' = "idle")
           => /\ ~isLoading'
              /\ messages' = Append(messages, botMessage(lastMessage(messages').text))
       ]_vars
  /\ \A n \in 1..MaxTurns :
       (turns = n /\ isLoading) ~> (turns = n /\ ~isLoading /\ pc = "idle")

C14_Witness ==
  /\ confirmTurn /\ ~Truthy(closure.account) /\ isMetaMaskAvailable
  /\ pc = "idle" /\ ~isLoading
  /\ Len(backendRequests) = 1
  /\ lastMessage(messages) = botMessage(ApologyText)

(* C15: when the backend call fails (fetch throws or the status is not     *)
(* 2xx), handleSendMessage yields exactly the fixed apology text as the    *)
(* bot message, makes no provider call, and leaves awaitingConfirmation    *)
(* and pendingTransaction as they were when the call started.              *)
C15_BackendFailure ==
  [][backendFailed
     => /\ messages' = Append(messages,
             [text |-> <<"Sorry, there was an error processing your request. Please try again.">>,
              type |-> "bot"])
        /\ ~isLoading' /\ pc' = "idle"
        /\ txRequests' = <<>>
        /\ UNCHANGED <<connectRequest, accountsQuery>>
        /\ UNCHANGED <<awaitingConfirmation, pendingTransaction>>]_vars

C15_Witness ==
  /\ pc = "idle" /\ turns = 2 /\ confirmTurn
  /\ lastMessage(messages) = botMessage(ApologyText)
  /\ dataResponse = null /\ txRequests = <<>>
  /\ ~awaitingConfirmation /\ pendingTransaction = In_hi

isPrefix(s, t) == Len(s) <= Len(t) /\ SubSeq(t, 1, Len(s)) = s

(* C16: the message list is append-only: in every step the previous list   *)
(* is a prefix of the next one, the greeting included, and each message is *)
(* appended by the step in which its producing operation completes.        *)
C16_AppendOnly ==
  [][/\ isPrefix(messages, messages')
     /\ messages'[1] = botMessage(Greeting)
     /\ \A r \in Responses :
          (backendResponded(r) /\ pc' = "idle")
          => messages' = Append(messages, botMessage(r))
     /\ backendFailed => messages' = Append(messages, botMessage(ApologyText))
     /\ \A h \in TxHashes :
          sendTransactionResolved(h)
          => messages' = Append(messages, botMessage(TxSentText(h)))
     /\ \A e \in ProviderErrors :
          sendTransactionRejected(e)
          => messages' = Append(messages, botMessage(TxErrorText(e)))
     /\ requestAccountsRejected
          => messages' = Append(messages, botMessage(ConnectFailedText))
     /\ (pc # "idle" /\ messages' # messages /\ pc' = pc)
          => /\ account' # account
             /\ messages' = Append(messages, botMessage(ConnectedText(account')))
    ]_vars

C16_Witness ==
  /\ pc = "idle" /\ turns = 1
  /\ messages = <<botMessage(Greeting), userMessage(In_hi),
                  botMessage(ConnectedText(Addr1)), botMessage(Resp_plain)>>

(* C17: whenever an eth_sendTransaction request is issued, a wallet        *)
(* account is connected at that moment and the request's from is the       *)
(* currently connected address, also when the account was disconnected or  *)
(* switched while the backend call was in flight.                          *)
C17_SendFromCurrentAccount ==
  [][(pc # "sendTransaction" /\ pc' = "sendTransaction")
     => /\ Truthy(account)
        /\ lastMessage(txRequests').from = account]_vars

(* C18: at most one backend call is in flight at any time.  A submit is    *)
(* accepted only when the trimmed text is non-empty and isLoading is       *)
(* false; while isLoading is true the guard of handleSubmit rejects every  *)
(* text, and a rejected submit changes nothing; isLoading is true from an  *)
(* accepted submit until the turn's bot message has been appended, the     *)
(* post-connect delay included; a backend call is issued only when none is *)
(* in flight.                                                              *)
C18_OneTurnAtATime ==
  /\ [](pc # "idle" => isLoading)
  /\ [](isLoading => \A t \in Inputs : submitRejected(t))
  /\ [][/\ \A t \in Inputs :
             handleSubmit(t)
             => IF trim(t) # <<>> /\ ~isLoading
                THEN /\ turns' = turns + 1
                     /\ messages'[Len(messages) + 1] = userMessage(trim(t))
                ELSE UNCHANGED <<messages, isLoading, awaitingConfirmation,
                                 pendingTransaction, pc, backendRequests, txRequests,
                                 connectRequest, turns>>
        /\ isLoading => UNCHANGED <<turns, closure>>
        /\ (isLoading /\ ~isLoading')
             => /\ pc' = "idle"
                /\ messages' = Append(messages, botMessage(lastMessage(messages').text))
        /\ backendRequests' # backendRequests /\ backendRequests' # <<>>
             => pc # "fetch" /\ pc' = "fetch"
       ]_vars

C18_Witness ==
  /\ pc = "timer" /\ isLoading /\ inputText = <<>>
  /\ accounts = <<Addr1>>
  /\ backendRequests = <<>>
  /\ lastMessage(messages) = userMessage(trim(In_Confirm))

(* C19: in every state where awaitingConfirmation is true,                 *)
(* pendingTransaction is non-null and is the request text of the most      *)
(* recent backend call whose response contained the preview marker; the    *)
(* text resubmitted on CONFIRM is never null; a preview response sets the  *)
(* pending text to the text of the request that produced it.               *)
C19_PendingIsPreviewedRequest ==
  /\ [](awaitingConfirmation
        => /\ pendingTransaction # null
           /\ dataResponse # null /\ includes(dataResponse, PreviewMarker)
           /\ backendRequests # <<>>
           /\ pendingTransaction = lastMessage(backendRequests).message)
  /\ [](confirmTurn
        => /\ closure.pendingTransaction # null
           /\ \A i \in 1..Len(backendRequests) :
                backendRequests[i].message = closure.pendingTransaction)
  /\ [][\A r \in Responses :
          backendResponded(r)
          => IF includes(r, PreviewMarker)
             THEN /\ awaitingConfirmation'
                  /\ pendingTransaction' = lastMessage(backendRequests).message
             ELSE UNCHANGED <<awaitingConfirmation, pendingTransaction>>]_vars

C19_Witness ==
  /\ pc = "idle" /\ turns = 2 /\ confirmTurn
  /\ awaitingConfirmation /\ pendingTransaction = In_hi
  /\ dataResponse = Resp_preview
  /\ closure.messageText = trim(In_Confirm)

C20_Announcement(a) ==
  [text |-> <<"Your wallet has been connected successfully! Your address is: ">> \o a,
   type |-> "bot"]

(* C20: every change of account to a non-null value, by connectWallet, by  *)
(* an accountsChanged notification or by the mount-time eth_accounts       *)
(* query, appends exactly one bot message announcing that address,         *)
(* whatever the turn state; a change of account to null appends no         *)
(* message.                                                                *)
C20_AddressAnnounced ==
  [][/\ (account' # account /\ account' # null)
        => /\ messages' = Append(messages, C20_Announcement(account'))
           /\ UNCHANGED <<pc, isLoading, awaitingConfirmation, pendingTransaction>>
     /\ (account' # account /\ account' = null) => messages' = messages
     /\ \A a \in AccountLists \ {<<>>} :
          (a[1] # account
           /\ (connectWalletResolved(a) \/ accountsChanged(a) \/ accountsQueryResolved(a)))
          => account' = a[1] /\ lastMessage(messages') = C20_Announcement(a[1])
     /\ (disconnectWallet \/ accountsChanged(<<>>) \/ accountsQueryResolved(<<>>))
          => account' = null /\ messages' = messages
    ]_vars

C20_Witness ==
  /\ pc = "fetch" /\ isLoading /\ account = Addr2
  /\ walletLog = <<"connectWallet">> /\ ~connectRequest
  /\ messages = <<botMessage(Greeting), userMessage(In_hi), C20_Announcement(Addr2)>>

====
